---------------------------- MODULE Spec2Model ----------------------------
(***************************************************************************)
(* MetadNS: a DNS server (server.js) that answers A / CNAME / MX queries   *)
(* from a JSON blob kept in the metadata of a Stripe customer, and the     *)
(* command line tool (dns-update.js) that writes that blob.                *)
(*                                                                         *)
(* Strings are sequences of one-character strings, so that split, join,    *)
(* trim and concatenation are computed as JavaScript computes them.        *)
(***************************************************************************)
EXTENDS Integers, Sequences, FiniteSets, TLC

VARIABLES
    customers,  \* the Stripe account: the customers, in order of creation
    req,        \* server.js: one _handleRequest invocation per handler slot
    started,    \* number of requests handed to _handleRequest so far
    upd,        \* dns-update.js: one run of updateDNSRecord per process
    arg,        \* SpecParse, SpecCodec, SpecFormat: the input of the function
    out         \* SpecParse, SpecCodec, SpecFormat: what it returned

vars == <<customers, req, started, upd, arg, out>>

(***************************************************************************)
(* Bounds of the model.                                                    *)
(***************************************************************************)
\* longest name given to parseDomainParts in SpecParse
MaxNameLen == 5

\* requests handed to _handleRequest in one behaviour of Spec
MaxRequests == 2

\* the longest value argument of dns-update.js in SpecFormat
MaxValueLen == 4

(***************************************************************************)
(* String helpers (String.prototype.split / Array.prototype.join / slice). *)
(***************************************************************************)
DOT == "."

AT == <<"@">>

STAR == <<"*">>

\* all sequences over S of length 0..n
SeqsUpTo(S, n) == UNION {[1..k -> S] : k \in 0..n}

\* s.split(sep) for a one-character separator: always at least one piece
RECURSIVE Split(_, _)
Split(s, sep) ==
    IF \A i \in 1..Len(s) : s[i] # sep
    THEN <<s>>
    ELSE LET i == CHOOSE j \in 1..Len(s) :
                     s[j] = sep /\ \A k \in 1..(j - 1) : s[k] # sep
         IN  <<SubSeq(s, 1, i - 1)>> \o Split(SubSeq(s, i + 1, Len(s)), sep)

\* parts.join(sep)
RECURSIVE Join(_, _)
Join(parts, sep) ==
    IF Len(parts) = 0 THEN <<>>
    ELSE IF Len(parts) = 1 THEN parts[1]
    ELSE parts[1] \o <<sep>> \o Join(Tail(parts), sep)

\* parts.slice(-2): the last two elements, or all of them when fewer
SliceLastTwo(parts) ==
    IF Len(parts) <= 2 THEN parts ELSE SubSeq(parts, Len(parts) - 1, Len(parts))

\* parts.slice(0, -2): everything but the last two elements
SliceButLastTwo(parts) ==
    IF Len(parts) <= 2 THEN <<>> ELSE SubSeq(parts, 1, Len(parts) - 2)

(***************************************************************************)
(* server.js: parseDomainParts                                             *)
(***************************************************************************)
\* mutant: the  || '@'  default is lost
parseDomainParts_NoDefault(name) ==
    LET domainParts == Split(name, DOT)
    IN  [topDomain |-> Join(SliceLastTwo(domainParts), DOT),
         subdomain |-> Join(SliceButLastTwo(domainParts), DOT)]

\* mutant: only the label next to the apex is kept as the subdomain
parseDomainParts_NearestLabel(name) ==
    LET parts   == Split(name, DOT)
        n       == Len(parts)
        nearest == IF n >= 3 THEN parts[n - 2] ELSE <<>>
    IN  [topDomain |-> Join(SliceLastTwo(parts), DOT),
         subdomain |-> IF nearest = <<>> THEN AT ELSE nearest]

parseDomainParts(name) ==
    LET domainParts == Split(name, DOT)
        topDomain   == Join(SliceLastTwo(domainParts), DOT)
        joined      == Join(SliceButLastTwo(domainParts), DOT)
        \* '' is the only falsy string
        subdomain   == IF joined = <<>> THEN AT ELSE joined
    IN  [topDomain |-> topDomain, subdomain |-> subdomain]

(***************************************************************************)
(* JavaScript values.  Every value carries its kind in field k.            *)
(***************************************************************************)
Undefined == [k |-> "undefined"]

Null == [k |-> "null"]

NaN == [k |-> "NaN"]

Num(n) == [k |-> "number", v |-> n]

Str(s) == [k |-> "string", v |-> s]

Arr(a) == [k |-> "array", v |-> a]

\* an object literal / a parsed JSON object: own properties only
Obj(f) == [k |-> "object", v |-> f]

EmptyObj == Obj(<<>>)

\* a function reached through the prototype chain (Object, toString, ...)
InheritedFn == [k |-> "function"]

\* a string that is the JSON text of the value json: the account keeps the
\* text parsed (SpecCodec writes and reads the text itself)
JsonText(json) == [k |-> "jsontext", json |-> json]

\* a non-empty string that is not JSON text
Garbage == [k |-> "garbage"]

\* ToBoolean
Truthy(x) ==
    CASE x.k \in {"undefined", "null", "NaN"} -> FALSE
      [] x.k = "number" -> x.v # 0
      [] x.k = "string" -> x.v # <<>>
      [] x.k = "boolean" -> x.v
      [] OTHER -> TRUE

CONSTRUCTOR == <<"c", "o", "n", "s", "t", "r", "u", "c", "t", "o", "r">>

TO_STRING == <<"t", "o", "S", "t", "r", "i", "n", "g">>

\* property names every object inherits from Object.prototype; the model
\* carries two of them (valueOf, hasOwnProperty, ... behave alike)
ObjectPrototypeKeys == {CONSTRUCTOR, TO_STRING}

HasOwn(o, key) == o.k = "object" /\ key \in DOMAIN o.v

\* o[key] throws a TypeError when o is null or undefined
GetThrows(o) == o.k \in {"undefined", "null"}

\* o[key] for a receiver that is not null or undefined: the own property,
\* else the inherited one, else undefined
Get(o, key) ==
    IF HasOwn(o, key) THEN o.v[key]
    ELSE IF key \in ObjectPrototypeKeys THEN InheritedFn
    ELSE Undefined

\* x[0]
First(x) ==
    CASE x.k = "array" -> IF Len(x.v) > 0 THEN x.v[1] ELSE Undefined
      [] x.k = "string" -> IF Len(x.v) > 0 THEN Str(<<x.v[1]>>) ELSE Undefined
      [] OTHER -> Get(x, <<"0">>)

\* `${x}`: the conversion of x to a string throws a TypeError when x is an
\* object with an own property toString that is no function (valueOf gives
\* no primitive either), and when x is an array with such an element
\* (Array.prototype.join converts every element)
RECURSIVE ToStringThrows(_)
ToStringThrows(x) ==
    CASE x.k = "object" ->
             HasOwn(x, TO_STRING) /\ x.v[TO_STRING].k # "function"
      [] x.k = "array" -> \E i \in 1..Len(x.v) : ToStringThrows(x.v[i])
      [] OTHER -> FALSE

\* JSON.parse(text): [threw, value]
JSONparse(text) ==
    IF text.k = "jsontext"
    THEN [threw |-> FALSE, value |-> text.json]
    ELSE [threw |-> TRUE, value |-> Undefined]

(***************************************************************************)
(* The Stripe account.  A customer is [email, dns_records]; dns_records is *)
(* metadata.dns_records: Undefined when the key is not set, else a string. *)
(***************************************************************************)
DNS_AT == <<"d", "n", "s", "@">>

\* `dns@${domain}`
Email(domain) == DNS_AT \o domain

Customer(domain, blob) == [email |-> Email(domain), dns_records |-> blob]

SetMax(S) == CHOOSE m \in S : \A x \in S : x <= m

\* stripe.customers.list({limit: 1, email}): the customers of that email,
\* most recently created first, cut to one
ListCustomers(email) ==
    LET ids == {i \in 1..Len(customers) : customers[i].email = email}
    IN  IF ids = {} THEN <<>> ELSE <<customers[SetMax(ids)]>>

(***************************************************************************)
(* server.js: the read pipeline                                            *)
(***************************************************************************)
TYPE_A == 1

TYPE_CNAME == 5

TYPE_MX == 15

TYPE_TXT == 16

CLASS_IN == 1

TTL == 300

K_A == <<"A">>

K_CNAME == <<"C", "N", "A", "M", "E">>

K_MX == <<"M", "X">>

PRIORITY == <<"p", "r", "i", "o", "r", "i", "t", "y">>

EXCHANGE == <<"e", "x", "c", "h", "a", "n", "g", "e">>

LOOPBACK == Str(<<"1", "2", "7", DOT, "0", DOT, "0", DOT, "1">>)

\* mutant: the answer is named by the apex instead of the queried name
addRecord_Requalified(name, type, record) ==
    [name |-> parseDomainParts(name).topDomain, type |-> type,
     class |-> CLASS_IN, ttl |-> TTL, data |-> record]

\* addRecord: the answer pushed; data holds the spread ...record
addRecord(name, type, record) ==
    [name |-> name, type |-> type, class |-> CLASS_IN, ttl |-> TTL,
     data |-> record]

\* the answer pushed by the catch of _handleRequest
FallbackAnswer(name) ==
    [name |-> name, type |-> TYPE_A, class |-> CLASS_IN, ttl |-> TTL,
     data |-> [address |-> LOOPBACK]]

\* the elements before the first one at which the callback of forEach
\* throws: their answers were pushed
Before(bad, len) ==
    IF bad = {} THEN len ELSE (CHOOSE i \in bad : \A j \in bad : i <= j) - 1

\* recordSet.A.forEach(ip => { console.log(`Adding A record: ${ip}`);
\* addRecord(..., { address: ip }) }): the log line throws on an element
\* that cannot be converted to a string, after the answers of the elements
\* before it were pushed
AnswersA(name, a) ==
    LET bad == {i \in 1..Len(a.v) : ToStringThrows(a.v[i])}
    IN  [answers |->
             [i \in 1..Before(bad, Len(a.v)) |->
                 addRecord(name, TYPE_A, [address |-> a.v[i]])],
         threw |-> bad # {}]

\* mutant: one CNAME answer per stored value
AnswersCNAME_EveryValue(name, cname) ==
    IF ToStringThrows(First(cname))
    THEN [answers |-> <<>>, threw |-> TRUE]
    ELSE [answers |->
              IF cname.k = "array"
              THEN [i \in 1..Len(cname.v) |->
                       addRecord(name, TYPE_CNAME, [domain |-> cname.v[i]])]
              ELSE <<addRecord(name, TYPE_CNAME, [domain |-> First(cname)])>>,
          threw |-> FALSE]

\* console.log(`Adding CNAME record: ${recordSet.CNAME[0]}`);
\* addRecord(..., { domain: recordSet.CNAME[0] }): the log line throws when
\* the first value cannot be converted to a string
AnswersCNAME(name, cname) ==
    IF ToStringThrows(First(cname))
    THEN [answers |-> <<>>, threw |-> TRUE]
    ELSE [answers |->
              <<addRecord(name, TYPE_CNAME, [domain |-> First(cname)])>>,
          threw |-> FALSE]

\* mxRecords.forEach(mx => { console.log(`... ${mx.exchange} (preference:
\* ${mx.priority})`); addRecord(..., { priority, exchange }) }): reading
\* mx.exchange throws on a null element, and the log line throws on an
\* exchange or a priority that cannot be converted to a string, after the
\* answers of the elements before it were pushed
AnswersMX(name, mx) ==
    LET bad == {i \in 1..Len(mx.v) :
                   \/ GetThrows(mx.v[i])
                   \/ ToStringThrows(Get(mx.v[i], EXCHANGE))
                   \/ ToStringThrows(Get(mx.v[i], PRIORITY))}
        n   == Before(bad, Len(mx.v))
    IN  [answers |->
             [i \in 1..n |->
                 addRecord(name, TYPE_MX,
                           [priority |-> Get(mx.v[i], PRIORITY),
                            exchange |-> Get(mx.v[i], EXCHANGE)])],
         threw |-> bad # {}]

\* the switch of addRecordsToResponse: the answers pushed onto the
\* response, and whether a TypeError was thrown (x.forEach is not a function
\* when x is no array)
SwitchOnType(name, recordSet, type) ==
    LET a     == Get(recordSet, K_A)
        cname == Get(recordSet, K_CNAME)
        mx    == Get(recordSet, K_MX)
        mxRecords == IF Truthy(mx) THEN mx ELSE Arr(<<>>)
        none  == [answers |-> <<>>, threw |-> FALSE]
    IN  CASE type = TYPE_A ->
                 IF Truthy(a)
                 THEN IF a.k = "array"
                      THEN AnswersA(name, a)
                      ELSE [answers |-> <<>>, threw |-> TRUE]
                 ELSE IF Truthy(cname)
                 THEN AnswersCNAME(name, cname)
                 ELSE none
          [] type = TYPE_CNAME ->
                 IF Truthy(cname)
                 THEN AnswersCNAME(name, cname)
                 ELSE none
          [] type = TYPE_MX ->
                 IF mxRecords.k = "array"
                 THEN AnswersMX(name, mxRecords)
                 ELSE [answers |-> <<>>, threw |-> TRUE]
          [] OTHER -> none

\* mutant: a CNAME query is served like an A query
addRecordsToResponse_CnameLikeA(name, recordSet, type) ==
    SwitchOnType(name, recordSet, IF type = TYPE_CNAME THEN TYPE_A ELSE type)

\* mutant: the MX values are reversed when a later one has the lower
\* priority (sorted by priority, for two values)
addRecordsToResponse_SortedMX(name, recordSet, type) ==
    LET mx == Get(recordSet, K_MX)
    IN  IF /\ type = TYPE_MX /\ mx.k = "array" /\ Len(mx.v) = 2
           /\ mx.v[1].k = "object" /\ mx.v[2].k = "object"
           /\ Get(mx.v[1], PRIORITY).v > Get(mx.v[2], PRIORITY).v
        THEN SwitchOnType(name, Obj(K_MX :> Arr(<<mx.v[2], mx.v[1]>>)), type)
        ELSE SwitchOnType(name, recordSet, type)

addRecordsToResponse(name, recordSet, type) ==
    SwitchOnType(name, recordSet, type)

\* what awaiting stripe.customers.list gives: the page, or a rejection
Listed(data) == [ok |-> TRUE, data |-> data]

ListError == [ok |-> FALSE, data |-> <<>>]

\* mutant: an entry without any values counts as no entry
SelectRecordSet_EmptyEntryIsNone(customer, subdomain) ==
    LET text   == IF Truthy(customer.dns_records)
                  THEN customer.dns_records ELSE JsonText(EmptyObj)
        parsed == JSONparse(text)
        dnsRecords == parsed.value
        exact  == Get(dnsRecords, subdomain)
        recordSet == IF /\ \/ ~Truthy(exact)
                           \/ exact.k = "object" /\ DOMAIN exact.v = {}
                        /\ subdomain # AT
                     THEN Get(dnsRecords, STAR) ELSE exact
    IN  IF parsed.threw \/ GetThrows(dnsRecords)
        THEN [threw |-> TRUE, value |-> Undefined]
        ELSE [threw |-> FALSE,
              value |-> IF Truthy(recordSet) THEN recordSet ELSE Null]

\* the inner try of lookupDnsRecords: [threw, value]
SelectRecordSet(customer, subdomain) ==
    LET text   == IF Truthy(customer.dns_records)
                  THEN customer.dns_records ELSE JsonText(EmptyObj)
        parsed == JSONparse(text)
        dnsRecords == parsed.value
        exact  == Get(dnsRecords, subdomain)
        recordSet == IF ~Truthy(exact) /\ subdomain # AT
                     THEN Get(dnsRecords, STAR) ELSE exact
    IN  IF parsed.threw \/ GetThrows(dnsRecords)
        THEN [threw |-> TRUE, value |-> Undefined]
        ELSE [threw |-> FALSE,
              value |-> IF Truthy(recordSet) THEN recordSet ELSE Null]

\* mutant: a failed list call or an undecodable blob is thrown on
lookupDnsRecords_Rethrows(listed, subdomain) ==
    IF ~listed.ok THEN [threw |-> TRUE, value |-> Undefined]
    ELSE IF Len(listed.data) = 0 THEN [threw |-> FALSE, value |-> Null]
    ELSE SelectRecordSet(listed.data[1], subdomain)

\* mutant: an unknown apex is reported as a failure
lookupDnsRecords_NoCustomerThrows(listed, subdomain) ==
    IF ~listed.ok THEN [threw |-> FALSE, value |-> Null]
    ELSE IF Len(listed.data) = 0 THEN [threw |-> TRUE, value |-> Undefined]
    ELSE LET sel == SelectRecordSet(listed.data[1], subdomain)
         IN  IF sel.threw THEN [threw |-> FALSE, value |-> Null] ELSE sel

\* lookupDnsRecords after its await: [threw, value]; both catch blocks
\* return null, so it never throws
lookupDnsRecords(listed, subdomain) ==
    IF ~listed.ok THEN [threw |-> FALSE, value |-> Null]
    ELSE IF Len(listed.data) = 0 THEN [threw |-> FALSE, value |-> Null]
    ELSE LET sel == SelectRecordSet(listed.data[1], subdomain)
         IN  IF sel.threw THEN [threw |-> FALSE, value |-> Null] ELSE sel

Handlers == {"h1", "h2"}

\* seen records, for the claims, the update runs whose write was the latest
\* write to the account when the handling of the request started
IdleRequest ==
    [pc |-> "idle", name |-> <<>>, type |-> 0, topDomain |-> <<>>,
     subdomain |-> <<>>, listed |-> ListError, recordSet |-> Undefined,
     threw |-> FALSE, caught |-> FALSE, answers |-> <<>>, sends |-> 0,
     seen |-> {}]

\* lookupDnsRecords from the point where the list call settles to its
\* return: the promise _handleRequest awaits is settled with the record set
\* (threw: it is rejected), and _handleRequest has not resumed yet
LookupSettles(r, listed) ==
    LET found == lookupDnsRecords(listed, r.subdomain)
    IN  [r EXCEPT !.pc = "found", !.listed = listed,
                  !.recordSet = found.value, !.threw = found.threw]

\* _handleRequest resumed after  await this.lookupDnsRecords(...): the rest
\* of the try, the catch, and send(response)
Resume(r) ==
    LET built == IF ~r.threw /\ Truthy(r.recordSet)
                 THEN addRecordsToResponse(r.name, r.recordSet, r.type)
                 ELSE [answers |-> <<>>, threw |-> r.threw]
    IN  [r EXCEPT !.pc = "done", !.caught = built.threw,
                  !.answers = IF built.threw
                              THEN built.answers \o <<FallbackAnswer(r.name)>>
                              ELSE built.answers,
                  !.sends = r.sends + 1]

\* the response of request r when its list call settles with listed: the
\* two steps one after the other
Respond(r, listed) == Resume(LookupSettles(r, listed))

\* _handleRequest up to the await of the list call.  The destructuring of
\* request.questions[0] is outside the try: with no question the promise
\* is rejected and nothing is sent.
HandleRequest(h, questions) ==
    /\ req[h].pc \in {"idle", "done", "rejected"}
    /\ started < MaxRequests
    /\ started' = started + 1
    /\ IF Len(questions) = 0
       THEN req' = [req EXCEPT ![h] = [IdleRequest EXCEPT !.pc = "rejected"]]
       ELSE LET name  == questions[1].name
                parts == parseDomainParts(name)
            IN  req' = [req EXCEPT ![h] =
                           [IdleRequest EXCEPT
                               !.pc = "lookup", !.name = name,
                               !.seen = {u \in DOMAIN upd : upd[u].latest},
                               !.type = questions[1].type,
                               !.topDomain = parts.topDomain,
                               !.subdomain = parts.subdomain]]
    /\ UNCHANGED <<customers, upd, arg, out>>

\* the list call resolves with what the account holds at that moment and
\* lookupDnsRecords runs to its return; _handleRequest resumes in a later
\* turn of the event loop.  The read of the account is placed at the
\* resolution: between a read Stripe makes earlier and the resolution the
\* handler does nothing, and what follows the resolution touches only the
\* handler's own locals, so a run with the earlier read has the same
\* responses as the run of this model that resolves at the read.
ListResolves(h) ==
    /\ req[h].pc = "lookup"
    /\ req' = [req EXCEPT ![h] =
                  LookupSettles(req[h],
                                Listed(ListCustomers(Email(req[h].topDomain))))]
    /\ UNCHANGED <<customers, started, upd, arg, out>>

\* the list call rejects (network, authentication, rate limit) and the
\* outer catch of lookupDnsRecords returns null
ListRejects(h) ==
    /\ req[h].pc = "lookup"
    /\ req' = [req EXCEPT ![h] = LookupSettles(req[h], ListError)]
    /\ UNCHANGED <<customers, started, upd, arg, out>>

\* _handleRequest resumes with the record set, builds the answers and
\* sends the response
HandleRequestResumes(h) ==
    /\ req[h].pc = "found"
    /\ req' = [req EXCEPT ![h] = Resume(req[h])]
    /\ UNCHANGED <<customers, started, upd, arg, out>>

(***************************************************************************)
(* dns-update.js: updateDNSRecord                                          *)
(***************************************************************************)
COMMA == ","

SPACE == " "

Whitespace == {SPACE, "\t", "\n"}

Digits == <<"0", "1", "2", "3", "4", "5", "6", "7", "8", "9">>

IsDigit(c) == \E i \in 1..10 : Digits[i] = c

DigitValue(c) == (CHOOSE i \in 1..10 : Digits[i] = c) - 1

\* s.trim()
RECURSIVE Trim(_)
Trim(s) ==
    IF Len(s) = 0 THEN s
    ELSE IF s[1] \in Whitespace THEN Trim(Tail(s))
    ELSE IF s[Len(s)] \in Whitespace THEN Trim(SubSeq(s, 1, Len(s) - 1))
    ELSE s

\* the number of leading digits of s
RECURSIVE DigitPrefix(_)
DigitPrefix(s) ==
    IF Len(s) = 0 \/ ~IsDigit(s[1]) THEN 0 ELSE 1 + DigitPrefix(Tail(s))

RECURSIVE DecimalValue(_)
DecimalValue(s) ==
    IF Len(s) = 0 THEN 0
    ELSE 10 * DecimalValue(SubSeq(s, 1, Len(s) - 1)) + DigitValue(s[Len(s)])

\* parseInt(s, 10): leading whitespace skipped, an optional sign, then the
\* longest run of digits; NaN when there is no digit
parseInt(s) ==
    LET t    == Trim(s)
        neg  == Len(t) > 0 /\ t[1] = "-"
        body == IF Len(t) > 0 /\ t[1] \in {"-", "+"} THEN Tail(t) ELSE t
        n    == DigitPrefix(body)
        val  == DecimalValue(SubSeq(body, 1, n))
    IN  IF n = 0 THEN NaN ELSE Num(IF neg THEN 0 - val ELSE val)

\* exchange.endsWith('.')
EndsWithDot(s) == Len(s) > 0 /\ s[Len(s)] = DOT

\* the MX branch for one comma-separated segment: [threw, value]
FormatMX(v) ==
    LET parts == Split(Trim(v), SPACE)
    IN  IF Len(parts) < 2
        THEN [threw |-> TRUE, value |-> Undefined]
        ELSE [threw |-> FALSE,
              value |-> Obj(PRIORITY :> parseInt(parts[1])
                            @@ EXCHANGE :>
                                Str(IF EndsWithDot(parts[2]) THEN parts[2]
                                    ELSE parts[2] \o <<DOT>>))]

\* formattedValue: [threw, value]
FormatValue(recordType, value) ==
    LET segs == Split(value, COMMA)
        mx   == [i \in 1..Len(segs) |-> FormatMX(segs[i])]
    IN  IF recordType \in {K_A, K_CNAME}
        THEN [threw |-> FALSE,
              value |-> Arr([i \in 1..Len(segs) |-> Str(Trim(segs[i]))])]
        ELSE IF recordType = K_MX
        THEN IF \E i \in 1..Len(segs) : mx[i].threw
             THEN [threw |-> TRUE, value |-> Undefined]
             ELSE [threw |-> FALSE,
                   value |-> Arr([i \in 1..Len(segs) |-> mx[i].value])]
        ELSE [threw |-> FALSE, value |-> Undefined]

\* o[key] = val: an own property of an object; the assignment is lost on
\* any other receiver (a function of the prototype chain, a primitive)
Set(o, key, val) ==
    IF o.k = "object"
    THEN Obj([p \in DOMAIN o.v \cup {key} |-> IF p = key THEN val ELSE o.v[p]])
    ELSE o

\* what JSON.stringify writes for a value: undefined and functions are
\* dropped from objects and become null in arrays, NaN becomes null
RECURSIVE ToJSON(_)
ToJSON(x) ==
    CASE x.k = "NaN" -> Null
      [] x.k = "array" ->
             Arr([i \in 1..Len(x.v) |->
                     IF x.v[i].k \in {"undefined", "function"} THEN Null
                     ELSE ToJSON(x.v[i])])
      [] x.k = "object" ->
             Obj([p \in {q \in DOMAIN x.v :
                             x.v[q].k \notin {"undefined", "function"}}
                     |-> ToJSON(x.v[p])])
      [] OTHER -> x

\* JSON.stringify(x), kept as the value its text is parsed to
JSONstringify(x) == JsonText(ToJSON(x))

\* subdomain === '@' || subdomain === '' ? '@' : subdomain
NormalizeSub(subdomain) ==
    IF subdomain = AT \/ subdomain = <<>> THEN AT ELSE subdomain

\* lines 57-61: if (!dnsRecords[sub]) dnsRecords[sub] = {};
\*              dnsRecords[sub][recordType] = formattedValue;
MergeRecord(dnsRecords, sub, recordType, formattedValue) ==
    IF GetThrows(dnsRecords)
    THEN [threw |-> TRUE, value |-> dnsRecords]
    ELSE LET withEntry == IF Truthy(Get(dnsRecords, sub)) THEN dnsRecords
                          ELSE Set(dnsRecords, sub, EmptyObj)
             entry     == Get(withEntry, sub)
         IN  IF GetThrows(entry)
             THEN [threw |-> TRUE, value |-> dnsRecords]
             ELSE IF HasOwn(withEntry, sub)
             THEN [threw |-> FALSE,
                   value |-> Set(withEntry, sub,
                                 Set(entry, recordType, formattedValue))]
             ELSE [threw |-> FALSE, value |-> withEntry]

\* lines 21-28: the record set the update starts from
ExistingRecords(customer) ==
    LET text   == IF Truthy(customer.dns_records)
                  THEN customer.dns_records ELSE JsonText(EmptyObj)
        parsed == JSONparse(text)
    IN  IF parsed.threw THEN EmptyObj ELSE parsed.value

Updaters == {"u1", "u2"}

\* latest records, for the claims, that the run has stored its blob and no
\* write (create or update) reached the account since; atStart, the account
\* as it was when the run started; quiet, that no other run has written
\* since then
IdleUpdate ==
    [pc |-> "idle", domain |-> <<>>, subdomain |-> <<>>, recordType |-> <<>>,
     value |-> <<>>, customerId |-> 0, formattedValue |-> Undefined,
     blob |-> Undefined, read |-> Undefined, alone |-> TRUE,
     latest |-> FALSE, atStart |-> <<>>, quiet |-> TRUE]

\* lines 38-69 up to the await of customers.update: the update process
\* with its blob ready, or failed when formatting or merging threw
Prepare(u, id, dnsRecords, read) ==
    LET sub       == NormalizeSub(u.subdomain)
        formatted == FormatValue(u.recordType, u.value)
        merged    == MergeRecord(dnsRecords, sub, u.recordType, formatted.value)
    IN  IF formatted.threw \/ merged.threw
        THEN [u EXCEPT !.pc = "failed", !.customerId = id, !.read = read]
        ELSE [u EXCEPT !.pc = "update", !.customerId = id, !.read = read,
                       !.formattedValue = formatted.value,
                       !.blob = JSONstringify(merged.value)]

\* node dns-update.js <domain> <subdomain> <recordType> <value>: up to the
\* await of customers.list
StartUpdate(u, domain, subdomain, recordType, value) ==
    /\ upd[u].pc = "idle"
    /\ upd' = [upd EXCEPT ![u] =
                  [IdleUpdate EXCEPT !.pc = "list", !.domain = domain,
                                     !.subdomain = subdomain,
                                     !.recordType = recordType,
                                     !.value = value,
                                     !.atStart = customers]]
    /\ UNCHANGED <<customers, req, started, arg, out>>

\* customers.list resolves: with a customer the blob is prepared and
\* customers.update is called; without one customers.create is called
UpdateListResolves(u) ==
    /\ upd[u].pc = "list"
    /\ LET data == ListCustomers(Email(upd[u].domain))
           id   == SetMax({i \in 1..Len(customers) :
                               customers[i].email = Email(upd[u].domain)})
       IN  upd' = [upd EXCEPT ![u] =
                      IF Len(data) > 0
                      THEN Prepare(upd[u], id, ExistingRecords(data[1]),
                                   data[1].dns_records)
                      ELSE [upd[u] EXCEPT !.pc = "create"]]
    /\ UNCHANGED <<customers, req, started, arg, out>>

\* another update process has read the account and not yet written
InFlight(v) == upd[v].pc \in {"create", "update"}

\* a write by u: every other process in flight no longer runs alone, no
\* other process holds the latest write, and no started one is quiet
Disturb(u, next) ==
    [v \in Updaters |->
        IF v = u THEN next
        ELSE IF InFlight(v)
        THEN [upd[v] EXCEPT !.alone = FALSE, !.latest = FALSE,
                            !.quiet = FALSE]
        ELSE IF upd[v].pc = "idle" THEN upd[v]
        ELSE [upd[v] EXCEPT !.latest = FALSE, !.quiet = FALSE]]

\* customers.create resolves: a customer without metadata exists
CreateResolves(u) ==
    /\ upd[u].pc = "create"
    /\ customers' = Append(customers, Customer(upd[u].domain, Undefined))
    /\ upd' = Disturb(u, Prepare(upd[u], Len(customers) + 1, EmptyObj, Undefined))
    /\ UNCHANGED <<req, started, arg, out>>

\* mutant: the write merges the value into the record set stored at that
\* moment instead of storing the blob prepared from the earlier read
UpdateResolves_MergesIntoStored(u) ==
    /\ upd[u].pc = "update"
    /\ LET stored == ExistingRecords(customers[upd[u].customerId])
           merged == MergeRecord(stored, NormalizeSub(upd[u].subdomain),
                                 upd[u].recordType, upd[u].formattedValue)
       IN  customers' = [customers EXCEPT
                            ![upd[u].customerId].dns_records =
                                JSONstringify(merged.value)]
    /\ upd' = Disturb(u, [upd[u] EXCEPT !.pc = "done", !.latest = TRUE])
    /\ UNCHANGED <<req, started, arg, out>>

\* customers.update resolves: the blob is stored on the customer
UpdateResolves(u) ==
    /\ upd[u].pc = "update"
    /\ customers' = [customers EXCEPT
                        ![upd[u].customerId].dns_records = upd[u].blob]
    /\ upd' = Disturb(u, [upd[u] EXCEPT !.pc = "done", !.latest = TRUE])
    /\ UNCHANGED <<req, started, arg, out>>

\* mutant: the rejected customers.update has been applied all the same
CallRejects_StoredAnyway(u) ==
    /\ upd[u].pc \in {"list", "create", "update"}
    /\ customers' = IF upd[u].pc = "update"
                    THEN [customers EXCEPT
                             ![upd[u].customerId].dns_records = upd[u].blob]
                    ELSE customers
    /\ upd' = [upd EXCEPT ![u].pc = "failed"]
    /\ UNCHANGED <<req, started, arg, out>>

\* the pending Stripe call (list, create or update) rejects: the catch
\* logs the error
CallRejects(u) ==
    /\ upd[u].pc \in {"list", "create", "update"}
    /\ upd' = [upd EXCEPT ![u].pc = "failed"]
    /\ UNCHANGED <<customers, req, started, arg, out>>

(***************************************************************************)
(* SpecParse: parseDomainParts applied to every name up to MaxNameLen.     *)
(***************************************************************************)
NameChars == {"a", DOT, "@", "*"}

NotYet == [done |-> FALSE]

InitParse ==
    /\ arg \in SeqsUpTo(NameChars, MaxNameLen)
    /\ out = NotYet
    /\ customers = <<>>
    /\ req = [h \in Handlers |-> IdleRequest]
    /\ upd = [u \in Updaters |-> IdleUpdate]
    /\ started = 0

ParseStep ==
    /\ out = NotYet
    /\ out' = [done |-> TRUE, parts |-> parseDomainParts(arg)]
    /\ UNCHANGED <<arg, customers, req, started, upd>>

NextParse == ParseStep

SpecParse == InitParse /\ [][NextParse]_vars

(***************************************************************************)
(* Spec: the server answering queries from an account that holds one of    *)
(* InitialAccounts.  Blobs are written by dns-update.js or by hand (the    *)
(* README creates one with stripe.customers.create), so an account may     *)
(* hold a blob that is no JSON, or JSON of another shape.                  *)
(***************************************************************************)
X_C == <<"x", DOT, "c">>

Y_C == <<"y", DOT, "c">>

W == <<"w">>

V == <<"v">>

MXValue(p, e) == Obj(PRIORITY :> Num(p) @@ EXCHANGE :> Str(e))

\* "@": A and MX (not in priority order); "w": two CNAME values;
\* "v": an entry without values; "*": the wildcard
RecordsWithWildcard ==
    Obj(AT :> Obj(K_A :> Arr(<<Str(<<"1">>), Str(<<"2">>)>>)
                  @@ K_MX :> Arr(<<MXValue(20, <<"b", DOT>>),
                                   MXValue(10, <<"a", DOT>>)>>))
        @@ W :> Obj(K_CNAME :> Arr(<<Str(<<"c", DOT>>), Str(<<"d", DOT>>)>>))
        @@ V :> EmptyObj
        @@ STAR :> Obj(K_A :> Arr(<<Str(<<"9">>)>>)))

\* no wildcard; "w" holds both A and CNAME
RecordsNoWildcard ==
    Obj(AT :> Obj(K_MX :> Arr(<<MXValue(10, <<"a", DOT>>)>>))
        @@ W :> Obj(K_A :> Arr(<<Str(<<"3">>)>>)
                    @@ K_CNAME :> Arr(<<Str(<<"c", DOT>>)>>)))

RecordsOfY == Obj(AT :> Obj(K_A :> Arr(<<Str(<<"7">>)>>)))

\* JSON of another shape: A is a string, the MX list holds a null
RecordsMisshapen ==
    Obj(W :> Obj(K_A :> Str(<<"1">>))
        @@ AT :> Obj(K_MX :> Arr(<<MXValue(10, <<"a", DOT>>), Null>>)))

\* values that cannot be converted to a string: the second A value, the
\* exchange of the second MX value, the first CNAME value
Unprintable == Obj(TO_STRING :> Num(0))

RecordsUnprintable ==
    Obj(AT :> Obj(K_A :> Arr(<<Str(<<"1">>), Unprintable>>)
                  @@ K_MX :> Arr(<<MXValue(10, <<"a", DOT>>),
                                   Obj(PRIORITY :> Num(5)
                                       @@ EXCHANGE :> Unprintable)>>))
        @@ W :> Obj(K_CNAME :> Arr(<<Unprintable, Str(<<"c", DOT>>)>>)))

\* no "@" entry; "w" holds MX values only, "v" nothing, the wildcard A
\* values only
RecordsShadowed ==
    Obj(W :> Obj(K_MX :> Arr(<<MXValue(10, <<"a", DOT>>)>>))
        @@ V :> EmptyObj
        @@ STAR :> Obj(K_A :> Arr(<<Str(<<"9">>)>>)))

InitialAccounts ==
    { <<>>,
      <<Customer(X_C, Undefined)>>,
      <<Customer(X_C, Garbage)>>,
      <<Customer(X_C, JsonText(Null))>>,
      <<Customer(Y_C, JsonText(RecordsOfY)),
        Customer(X_C, JsonText(RecordsWithWildcard))>>,
      <<Customer(X_C, JsonText(RecordsNoWildcard))>>,
      <<Customer(X_C, JsonText(RecordsShadowed))>>,
      <<Customer(X_C, JsonText(RecordsMisshapen))>>,
      <<Customer(X_C, JsonText(RecordsUnprintable))>> }

QueryNames ==
    { X_C, W \o <<DOT>> \o X_C, V \o <<DOT>> \o X_C, <<"u", DOT>> \o X_C,
      CONSTRUCTOR \o <<DOT>> \o X_C, Y_C }

QueryTypes == {TYPE_A, TYPE_CNAME, TYPE_MX, TYPE_TXT}

\* request.questions: empty, or one question
QuestionLists ==
    {<<>>} \cup {<<[name |-> n, type |-> t]>> : n \in QueryNames, t \in QueryTypes}

Init ==
    /\ customers \in InitialAccounts
    /\ req = [h \in Handlers |-> IdleRequest]
    /\ upd = [u \in Updaters |-> IdleUpdate]
    /\ started = 0
    /\ arg = <<>>
    /\ out = NotYet

Next ==
    \/ \E h \in Handlers, q \in QuestionLists : HandleRequest(h, q)
    \/ \E h \in Handlers : ListResolves(h)
    \/ \E h \in Handlers : ListRejects(h)
    \/ \E h \in Handlers : HandleRequestResumes(h)

Spec == Init /\ [][Next]_vars

(***************************************************************************)
(* SpecUpdate: two runs of dns-update.js, in any interleaving, on an       *)
(* account that holds one of InitialAccounts.                              *)
(***************************************************************************)
UpdateSubdomains == {AT, <<>>, W, CONSTRUCTOR}

UpdateTypes == {K_A, K_CNAME, K_MX, <<"T", "X", "T">>}

UpdateValues ==
    { <<"1", COMMA, SPACE, "2">>,
      <<"5", SPACE, "m">>,
      <<"x", SPACE, "m", DOT>> }

InitUpdate ==
    /\ customers \in InitialAccounts
    /\ upd = [u \in Updaters |-> IdleUpdate]
    /\ req = [h \in Handlers |-> IdleRequest]
    /\ started = 0
    /\ arg = <<>>
    /\ out = NotYet

NextUpdate ==
    \/ \E u \in Updaters, s \in UpdateSubdomains, t \in UpdateTypes,
          v \in UpdateValues : StartUpdate(u, X_C, s, t, v)
    \/ \E u \in Updaters : UpdateListResolves(u)
    \/ \E u \in Updaters : CreateResolves(u)
    \/ \E u \in Updaters : UpdateResolves(u)
    \/ \E u \in Updaters : CallRejects(u)

SpecUpdate == InitUpdate /\ [][NextUpdate]_vars

(***************************************************************************)
(* JSON text: what JSON.stringify writes and JSON.parse reads, character   *)
(* by character.  The texts of the model hold null, true, false, integers, *)
(* strings, arrays and objects; of the characters that are escaped in a    *)
(* string they hold the quote, the backslash, the tab and the newline.     *)
(* In the account (customers) a blob that is JSON text is kept as          *)
(* JsonText(json), json being the value JSONparseText gives for the text.  *)
(***************************************************************************)
QUOTE == "\""

BACKSLASH == "\\"

Bool(b) == [k |-> "boolean", v |-> b]

\* the characters JSON.parse skips between tokens
JsonWhitespace == {SPACE, "\t", "\n", "\r"}

\* one character of a string as JSON.stringify writes it
EscapeChar(c) ==
    CASE c = QUOTE -> <<BACKSLASH, QUOTE>>
      [] c = BACKSLASH -> <<BACKSLASH, BACKSLASH>>
      [] c = "\t" -> <<BACKSLASH, "t">>
      [] c = "\n" -> <<BACKSLASH, "n">>
      [] OTHER -> <<c>>

RECURSIVE Escaped(_)
Escaped(s) ==
    IF Len(s) = 0 THEN <<>> ELSE EscapeChar(s[1]) \o Escaped(Tail(s))

\* mutant: the characters of a string are written as they are
QuoteJSONString_Unescaped(s) == <<QUOTE>> \o s \o <<QUOTE>>

\* a string as JSON.stringify writes it: quoted, with escapes
QuoteJSONString(s) == <<QUOTE>> \o Escaped(s) \o <<QUOTE>>

\* the decimal digits of a natural number
RECURSIVE DigitsOf(_)
DigitsOf(n) ==
    IF n < 10 THEN <<Digits[n + 1]>>
    ELSE DigitsOf(n \div 10) \o <<Digits[(n % 10) + 1]>>

\* an integer as JSON.stringify writes it
NumberText(n) == IF n < 0 THEN <<"-">> \o DigitsOf(0 - n) ELSE DigitsOf(n)

\* JSON.stringify visits the own properties of an object in their order
\* (array indices first, then the other names as they were created) and
\* writes them in that order.  Obj keeps no such order, so a value handed to
\* SerializeJSON carries it: its objects are Props(members), members being
\* the sequence of the properties [key, value] in that order
Props(members) == [k |-> "object", members |-> members]

Prop(key, value) == [key |-> key, value |-> value]

\* the value without the order of its properties
RECURSIVE Unordered(_)
Unordered(x) ==
    CASE x.k = "array" -> Arr([i \in 1..Len(x.v) |-> Unordered(x.v[i])])
      [] x.k = "object" ->
             IF Len(x.members) = 0 THEN EmptyObj
             ELSE Obj([key \in {x.members[i].key : i \in 1..Len(x.members)} |->
                          Unordered(x.members[CHOOSE i \in 1..Len(x.members) :
                                                  x.members[i].key = key].value)])
      [] OTHER -> x

\* a property holding undefined or a function is not written
IsWritten(member) == member.value.k \notin {"undefined", "function"}

\* JSON.stringify(x): undefined and functions become null in an array and
\* are left out of an object, NaN becomes null
RECURSIVE SerializeJSON(_)
SerializeJSON(x) ==
    CASE x.k \in {"null", "NaN", "undefined", "function"} ->
             <<"n", "u", "l", "l">>
      [] x.k = "boolean" ->
             IF x.v THEN <<"t", "r", "u", "e">> ELSE <<"f", "a", "l", "s", "e">>
      [] x.k = "number" -> NumberText(x.v)
      [] x.k = "string" -> QuoteJSONString(x.v)
      [] x.k = "array" ->
             <<"[">>
             \o Join([i \in 1..Len(x.v) |-> SerializeJSON(x.v[i])], COMMA)
             \o <<"]">>
      [] x.k = "object" ->
             LET written == SelectSeq(x.members, IsWritten)
             IN  <<"{">>
                 \o Join([i \in 1..Len(written) |->
                             QuoteJSONString(written[i].key) \o <<":">>
                             \o SerializeJSON(written[i].value)], COMMA)
                 \o <<"}">>

\* the parsers below return [ok, value, next]: next is the position after
\* what was read
ParseFailed == [ok |-> FALSE, value |-> Undefined, next |-> 0]

Parsed(value, next) == [ok |-> TRUE, value |-> value, next |-> next]

RECURSIVE SkipWhitespace(_, _)
SkipWhitespace(t, i) ==
    IF i <= Len(t) /\ t[i] \in JsonWhitespace
    THEN SkipWhitespace(t, i + 1) ELSE i

\* t holds the characters of word from position i on
HasWord(t, i, word) ==
    /\ i + Len(word) - 1 <= Len(t)
    /\ SubSeq(t, i, i + Len(word) - 1) = word

\* the rest of a string whose opening quote was read, up to the closing
\* quote: escapes are undone, a control character is a SyntaxError
RECURSIVE ParseString(_, _, _)
ParseString(t, i, acc) ==
    IF i > Len(t) THEN ParseFailed
    ELSE IF t[i] = QUOTE THEN Parsed(acc, i + 1)
    ELSE IF t[i] \in {"\t", "\n", "\r"} THEN ParseFailed
    ELSE IF t[i] # BACKSLASH THEN ParseString(t, i + 1, Append(acc, t[i]))
    ELSE IF i + 1 > Len(t) THEN ParseFailed
    ELSE CASE t[i + 1] \in {QUOTE, BACKSLASH, "/"} ->
                  ParseString(t, i + 2, Append(acc, t[i + 1]))
           [] t[i + 1] = "t" -> ParseString(t, i + 2, Append(acc, "\t"))
           [] t[i + 1] = "n" -> ParseString(t, i + 2, Append(acc, "\n"))
           [] t[i + 1] = "r" -> ParseString(t, i + 2, Append(acc, "\r"))
           [] OTHER -> ParseFailed

\* an integer: an optional minus, then 0 or a run of digits that does not
\* start with 0
ParseNumber(t, i) ==
    LET neg   == t[i] = "-"
        first == IF neg THEN i + 1 ELSE i
        run   == DigitPrefix(SubSeq(t, first, Len(t)))
        n     == IF run > 0 /\ t[first] = "0" THEN 1 ELSE run
        val   == DecimalValue(SubSeq(t, first, first + n - 1))
    IN  IF n = 0 THEN ParseFailed
        ELSE Parsed(Num(IF neg THEN 0 - val ELSE val), first + n)

RECURSIVE ParseValue(_, _)
RECURSIVE ParseElements(_, _, _)
RECURSIVE ParseMembers(_, _, _)

\* a JSON value that starts at or after position i0
ParseValue(t, i0) ==
    LET i == SkipWhitespace(t, i0)
    IN  IF i > Len(t) THEN ParseFailed
        ELSE CASE t[i] = QUOTE ->
                      LET s == ParseString(t, i + 1, <<>>)
                      IN  IF s.ok THEN Parsed(Str(s.value), s.next)
                          ELSE ParseFailed
               [] t[i] = "[" ->
                      LET j == SkipWhitespace(t, i + 1)
                      IN  IF j <= Len(t) /\ t[j] = "]"
                          THEN Parsed(Arr(<<>>), j + 1)
                          ELSE ParseElements(t, j, <<>>)
               [] t[i] = "{" ->
                      LET j == SkipWhitespace(t, i + 1)
                      IN  IF j <= Len(t) /\ t[j] = "}"
                          THEN Parsed(EmptyObj, j + 1)
                          ELSE ParseMembers(t, j, <<>>)
               [] t[i] = "-" \/ IsDigit(t[i]) -> ParseNumber(t, i)
               [] HasWord(t, i, <<"n", "u", "l", "l">>) -> Parsed(Null, i + 4)
               [] HasWord(t, i, <<"t", "r", "u", "e">>) ->
                      Parsed(Bool(TRUE), i + 4)
               [] HasWord(t, i, <<"f", "a", "l", "s", "e">>) ->
                      Parsed(Bool(FALSE), i + 5)
               [] OTHER -> ParseFailed

\* the elements of an array from position i on, acc holding those read
ParseElements(t, i, acc) ==
    LET el == ParseValue(t, i)
        j  == SkipWhitespace(t, el.next)
    IN  IF ~el.ok \/ j > Len(t) THEN ParseFailed
        ELSE IF t[j] = "]" THEN Parsed(Arr(Append(acc, el.value)), j + 1)
        ELSE IF t[j] = COMMA
        THEN ParseElements(t, j + 1, Append(acc, el.value))
        ELSE ParseFailed

\* the members of an object from position i0 on, acc holding those read; a
\* name that comes twice keeps its last value
ParseMembers(t, i0, acc) ==
    LET i     == SkipWhitespace(t, i0)
        key   == IF i <= Len(t) /\ t[i] = QUOTE
                 THEN ParseString(t, i + 1, <<>>) ELSE ParseFailed
        colon == SkipWhitespace(t, key.next)
        val   == IF key.ok /\ colon <= Len(t) /\ t[colon] = ":"
                 THEN ParseValue(t, colon + 1) ELSE ParseFailed
        j     == SkipWhitespace(t, val.next)
        more  == [p \in DOMAIN acc \cup {key.value} |->
                     IF p = key.value THEN val.value ELSE acc[p]]
    IN  IF ~val.ok \/ j > Len(t) THEN ParseFailed
        ELSE IF t[j] = "}" THEN Parsed(Obj(more), j + 1)
        ELSE IF t[j] = COMMA THEN ParseMembers(t, j + 1, more)
        ELSE ParseFailed

\* JSON.parse(t) for a text t: [threw, value]; a SyntaxError when t is no
\* JSON value followed by nothing but whitespace
JSONparseText(t) ==
    LET v == ParseValue(t, 1)
    IN  IF v.ok /\ SkipWhitespace(t, v.next) > Len(t)
        THEN [threw |-> FALSE, value |-> v.value]
        ELSE [threw |-> TRUE, value |-> Undefined]

(***************************************************************************)
(* SpecCodec: a record set is written as dns-update.js writes it and read  *)
(* back as server.js reads it.  The record sets are those the writer can   *)
(* hand to JSON.stringify: every choice of CodecEntries for the labels of  *)
(* CodecLabels, in every order of the labels.                              *)
(***************************************************************************)
K_TXT == <<"T", "X", "T">>

\* a label and a value that hold the characters JSON text gives a meaning
QUOTED == <<"w", QUOTE, BACKSLASH>>

Awkward == <<QUOTE, COMMA, "]", "}", BACKSLASH, "t", ":", "\t", "\n">>

CodecLabels == {AT, STAR, QUOTED}

\* { priority, exchange } as formattedValue creates it
MXProps(p, e) == Props(<<Prop(PRIORITY, p), Prop(EXCHANGE, Str(e))>>)

StrList(ss) == Arr([i \in 1..Len(ss) |-> Str(ss[i])])

\* entries the writer builds or finds in the blob it read: A, CNAME and MX
\* value lists, an entry without values, an empty value, values with
\* quotes, backslashes, brackets and control characters, a priority of 0
\* and a negative one, an entry whose MX values came before its A values
\* and hold the exchange before the priority, an MX priority that parseInt
\* could not read (NaN), and the undefined formattedValue of a type other
\* than A, CNAME, MX
CodecEntries ==
    { Props(<<>>),
      Props(<<Prop(K_A, StrList(<<(<<"1">>), <<"2">>>>))>>),
      Props(<<Prop(K_A, StrList(<<(<<"2">>), <<"1">>>>))>>),
      Props(<<Prop(K_A, StrList(<<(<<>>)>>))>>),
      Props(<<Prop(K_CNAME, StrList(<<(<<"c", DOT>>), Awkward>>))>>),
      Props(<<Prop(K_CNAME, StrList(<<(<<"n", "u", "l", "l">>),
                                      <<BACKSLASH, BACKSLASH, QUOTE>>>>))>>),
      Props(<<Prop(K_MX, Arr(<<MXProps(Num(20), <<"b", DOT>>),
                               MXProps(Num(10), <<"a", DOT>>)>>))>>),
      Props(<<Prop(K_A, StrList(<<(<<"1">>)>>)),
              Prop(K_MX, Arr(<<MXProps(Num(0), Awkward \o <<DOT>>),
                               MXProps(Num(0 - 5), <<"a", DOT>>)>>))>>),
      Props(<<Prop(K_MX, Arr(<<Props(<<Prop(EXCHANGE, Str(<<"a", DOT>>)),
                                       Prop(PRIORITY, Num(10))>>)>>)),
              Prop(K_A, StrList(<<(<<"1">>)>>))>>),
      Props(<<Prop(K_MX, Arr(<<MXProps(NaN, <<"m", DOT>>)>>))>>),
      Props(<<Prop(K_TXT, Undefined)>>) }

\* the labels of a record set in the order of its properties
LabelOrders ==
    {ls \in SeqsUpTo(CodecLabels, Cardinality(CodecLabels)) :
        \A i, j \in 1..Len(ls) : i # j => ls[i] # ls[j]}

CodecRecordSets ==
    UNION {{Props([i \in 1..Len(ls) |-> Prop(ls[i], es[i])]) :
               es \in [1..Len(ls) -> CodecEntries]} : ls \in LabelOrders}

\* dns_records: JSON.stringify(dnsRecords), the text
EncodeRecords(dnsRecords) == SerializeJSON(dnsRecords)

\* JSON.parse(metadata.dns_records || '{}') for a text: [threw, value]
DecodeRecords(blob) ==
    JSONparseText(IF blob # <<>> THEN blob ELSE <<"{", "}">>)

InitCodec ==
    /\ arg \in CodecRecordSets
    /\ out = NotYet
    /\ customers = <<>>
    /\ req = [h \in Handlers |-> IdleRequest]
    /\ upd = [u \in Updaters |-> IdleUpdate]
    /\ started = 0

\* dns-update.js hands the text of the record set to customers.update
EncodeStep ==
    /\ out = NotYet
    /\ out' = [done |-> FALSE, blob |-> EncodeRecords(arg)]
    /\ UNCHANGED <<arg, customers, req, started, upd>>

\* later, server.js reads the text back; kept is what the account of the
\* other specifications holds for the blob, and what they read from it
DecodeStep ==
    /\ out # NotYet
    /\ ~out.done
    /\ out' = [done |-> TRUE, blob |-> out.blob,
               decoded |-> DecodeRecords(out.blob),
               kept |-> JSONparse(JSONstringify(Unordered(arg)))]
    /\ UNCHANGED <<arg, customers, req, started, upd>>

NextCodec == EncodeStep \/ DecodeStep

SpecCodec == InitCodec /\ [][NextCodec]_vars

(***************************************************************************)
(* SpecServe: the server answering queries while runs of dns-update.js     *)
(* write to the account.                                                   *)
(***************************************************************************)
ServeAccounts ==
    { <<>>, <<Customer(X_C, JsonText(RecordsNoWildcard))>> }

ServeSubdomains == {AT, W}

ServeTypes == {K_A, K_CNAME}

ServeValues == { <<"5", SPACE, "m">> }

\* queries are handled one at a time here; Spec covers two in flight
ServeHandlers == {"h1"}

ServeQuestions ==
    {<<[name |-> n, type |-> t]>> :
        n \in {X_C, W \o <<DOT>> \o X_C}, t \in {TYPE_A, TYPE_MX}}

InitServe ==
    /\ customers \in ServeAccounts
    /\ upd = [u \in Updaters |-> IdleUpdate]
    /\ req = [h \in Handlers |-> IdleRequest]
    /\ started = 0
    /\ arg = <<>>
    /\ out = NotYet

NextServe ==
    \/ \E u \in Updaters, s \in ServeSubdomains, t \in ServeTypes,
          v \in ServeValues : StartUpdate(u, X_C, s, t, v)
    \/ \E u \in Updaters : UpdateListResolves(u)
    \/ \E u \in Updaters : CreateResolves(u)
    \/ \E u \in Updaters : UpdateResolves(u)
    \/ \E u \in Updaters : CallRejects(u)
    \/ \E h \in ServeHandlers, q \in ServeQuestions : HandleRequest(h, q)
    \/ \E h \in ServeHandlers : ListResolves(h)
    \/ \E h \in ServeHandlers : ListRejects(h)
    \/ \E h \in ServeHandlers : HandleRequestResumes(h)

SpecServe == InitServe /\ [][NextServe]_vars

(***************************************************************************)
(* SpecFormat: lines 38-67 of updateDNSRecord applied, on an empty record  *)
(* set, to every value up to MaxValueLen characters.                       *)
(***************************************************************************)
ValueChars == {"1", "m", DOT, COMMA, SPACE, "\t"}

FormatSubdomains == {AT, <<>>, W}

FormatTypes == {K_A, K_CNAME, K_MX}

InitFormat ==
    /\ arg \in [subdomain : FormatSubdomains, recordType : FormatTypes,
                value : SeqsUpTo(ValueChars, MaxValueLen)]
    /\ out = NotYet
    /\ customers = <<>>
    /\ req = [h \in Handlers |-> IdleRequest]
    /\ upd = [u \in Updaters |-> IdleUpdate]
    /\ started = 0

\* sub, formattedValue, the merge and JSON.stringify: the blob handed to
\* customers.update, or threw when the MX branch throws
FormatStep ==
    /\ out = NotYet
    /\ LET sub       == NormalizeSub(arg.subdomain)
           formatted == FormatValue(arg.recordType, arg.value)
           merged    == MergeRecord(EmptyObj, sub, arg.recordType,
                                    formatted.value)
       IN  out' = IF formatted.threw \/ merged.threw
                  THEN [done |-> TRUE, threw |-> TRUE, blob |-> Undefined]
                  ELSE [done |-> TRUE, threw |-> FALSE,
                        blob |-> JSONstringify(merged.value)]
    /\ UNCHANGED <<arg, customers, req, started, upd>>

NextFormat == FormatStep

SpecFormat == InitFormat /\ [][NextFormat]_vars

(***************************************************************************)
(* C10: parseDomainParts, stated by dots and suffixes of the name rather   *)
(* than by split and join.                                                 *)
(***************************************************************************)
DotCount(s) == Cardinality({i \in 1..Len(s) : s[i] = DOT})

LabelCount(s) == DotCount(s) + 1

IsSuffix(t, s) ==
    /\ Len(t) <= Len(s)
    /\ SubSeq(s, Len(s) - Len(t) + 1, Len(s)) = t

\* the apex is the part of the name after its last-but-one dot
ApexIsLastTwoLabels(name, apex) ==
    IF LabelCount(name) <= 2
    THEN apex = name
    ELSE /\ DotCount(apex) = 1
         /\ IsSuffix(apex, name)
         /\ name[Len(name) - Len(apex)] = DOT

\* C10 as claimed: apex = the last two labels; for names of two or more
\* labels, label = "@" exactly when the name has two labels, and otherwise
\* label + "." + apex = name.
C10_ParseAsClaimed ==
    out.done =>
        LET r == out.parts
            n == LabelCount(arg)
        IN  /\ ApexIsLastTwoLabels(arg, r.topDomain)
            /\ n >= 2 => ((r.subdomain = AT) <=> (n = 2))
            /\ n >= 3 => r.subdomain \o <<DOT>> \o r.topDomain = arg

\* C10 as amended: apex = the last two labels (the whole name when it has
\* fewer); label = the preceding labels joined by ".", except that an empty
\* join (no label precedes, or the one preceding label is empty) gives "@".
\* So label = "@" exactly when the name has at most two labels or has three
\* of which the first is "" or "@"; and label + "." + apex = name for every
\* name of three or more labels other than the three-label names whose
\* first label is empty.
C10_ParseAmended ==
    out.done =>
        LET r == out.parts
            n == LabelCount(arg)
            emptyFirst == n = 3 /\ arg[1] = DOT
            atFirst    == n = 3 /\ arg[1] = "@" /\ arg[2] = DOT
        IN  /\ ApexIsLastTwoLabels(arg, r.topDomain)
            /\ (r.subdomain = AT) <=> (n <= 2 \/ emptyFirst \/ atFirst)
            /\ (n >= 3 /\ ~emptyFirst) =>
                   r.subdomain \o <<DOT>> \o r.topDomain = arg

\* parse("a.a.a") has acted: one label in front of the two-label apex
C10_Witness ==
    /\ out.done
    /\ arg = <<"a", DOT, "a", DOT, "a">>
    /\ out.parts.subdomain = <<"a">>
    /\ out.parts.topDomain = <<"a", DOT, "a">>

(***************************************************************************)
(* C16: the reserved labels "@" and "*" as results of parseDomainParts.    *)
(***************************************************************************)
\* the name is one label, given as first, followed by a two-label apex
OneLabelBeforeApex(name, first) ==
    /\ LabelCount(name) = 3
    /\ Len(name) > Len(first)
    /\ SubSeq(name, 1, Len(first) + 1) = first \o <<DOT>>

\* C16 as claimed: for a name with at least one label before its two-label
\* apex the label returned is neither "@" nor "*"; "@" is returned only
\* when no label precedes the apex; "*" is never returned.
C16_ReservedAsClaimed ==
    out.done =>
        /\ LabelCount(arg) >= 3 => out.parts.subdomain \notin {AT, STAR}
        /\ out.parts.subdomain = AT => LabelCount(arg) <= 2
        /\ out.parts.subdomain # STAR

\* C16 as amended: the labels before the apex are returned as they are, so
\* a reserved label comes out exactly when it went in: for a name with at
\* least one label before its apex, "@" is returned exactly when that is
\* the single label "@" or a single empty label, and "*" is returned
\* exactly when the name is the single label "*" before a two-label apex.
\* With no label before the apex the label returned is "@".
C16_ReservedAmended ==
    out.done =>
        /\ LabelCount(arg) >= 3 =>
               ((out.parts.subdomain = AT) <=>
                    (OneLabelBeforeApex(arg, AT) \/ OneLabelBeforeApex(arg, <<>>)))
        /\ LabelCount(arg) <= 2 => out.parts.subdomain = AT
        /\ (out.parts.subdomain = STAR) <=> OneLabelBeforeApex(arg, STAR)

\* parse("*.a.a") has acted and returned the label "*"
C16_Witness ==
    /\ out.done
    /\ arg = <<"*", DOT, "a", DOT, "a">>
    /\ out.parts.subdomain = STAR
    /\ out.parts.topDomain = <<"a", DOT, "a">>

(***************************************************************************)
(* Claims about the read pipeline, checked under Spec.  They are stated    *)
(* over the locals a finished _handleRequest holds: the page its list call *)
(* returned (listed), the record set it selected (recordSet), whether its  *)
(* catch ran (caught) and the answers of the response it sent.             *)
(***************************************************************************)
Sent(h) == req[h].pc = "done"

\* the list call of h returned a customer
FoundCustomer(h) == req[h].listed.ok /\ Len(req[h].listed.data) > 0

BlobOf(h) == req[h].listed.data[1].dns_records

\* the blob of h's customer is JSON text of an object
DecodesToObject(h) ==
    /\ FoundCustomer(h)
    /\ BlobOf(h).k = "jsontext"
    /\ BlobOf(h).json.k = "object"

\* the blob of h's customer is no JSON text, or JSON text of null
Undecodable(h) ==
    /\ FoundCustomer(h)
    /\ \/ BlobOf(h).k = "garbage"
       \/ BlobOf(h).k = "jsontext" /\ BlobOf(h).json.k = "null"

ExpectedFallback(h) ==
    [name |-> req[h].name, type |-> TYPE_A, class |-> CLASS_IN, ttl |-> TTL,
     data |-> [address |-> LOOPBACK]]

\* a value of the data model: a string, or an object of strings and
\* numbers without a property toString
WellFormedValue(x) ==
    \/ x.k = "string"
    \/ /\ x.k = "object"
       /\ TO_STRING \notin DOMAIN x.v
       /\ \A key \in DOMAIN x.v : x.v[key].k \in {"string", "number"}

\* every value list of the entry is a non-empty array of such values
WellFormedEntry(e) ==
    e.k = "object" =>
        \A key \in DOMAIN e.v :
            /\ e.v[key].k = "array"
            /\ Len(e.v[key].v) > 0
            /\ \A i \in 1..Len(e.v[key].v) : WellFormedValue(e.v[key].v[i])

\* the entry has values of that type
HasValues(e, key) == e.k = "object" /\ key \in DOMAIN e.v

\* C2 as claimed: whenever a failure is raised while handling a query (the
\* store lookup fails, the blob cannot be decoded, or building the answers
\* throws), the response sent holds exactly the one fallback answer.
C2_FallbackAsClaimed ==
    \A h \in Handlers :
        (Sent(h) /\ (~req[h].listed.ok \/ Undecodable(h) \/ req[h].caught))
            => req[h].answers = <<ExpectedFallback(h)>>

\* the cases of C3 in which resolution finds nothing
NothingFound(h) ==
    \/ req[h].listed.ok /\ Len(req[h].listed.data) = 0
    \/ /\ DecodesToObject(h)
       /\ req[h].subdomain \notin DOMAIN BlobOf(h).json.v
       /\ STAR \notin DOMAIN BlobOf(h).json.v
    \/ req[h].type \notin {TYPE_A, TYPE_CNAME, TYPE_MX}
    \/ /\ Truthy(req[h].recordSet)
       /\ req[h].type = TYPE_A =>
              ~HasValues(req[h].recordSet, K_A) /\ ~HasValues(req[h].recordSet, K_CNAME)
       /\ req[h].type = TYPE_CNAME => ~HasValues(req[h].recordSet, K_CNAME)
       /\ req[h].type = TYPE_MX => ~HasValues(req[h].recordSet, K_MX)

\* C3: when resolution finds nothing (no customer for the apex; no entry for
\* the label and no wildcard entry; the query type is unsupported or the
\* selected entry has no values for it, fallback included), the response
\* has no answers, so no fallback answer either.
C3_NothingFoundIsEmpty ==
    \A h \in Handlers :
        (Sent(h) /\ NothingFound(h)) => req[h].answers = <<>>

\* an unknown apex and an unknown label without wildcard were both answered
C3_Witness ==
    \E h1, h2 \in Handlers :
        /\ Sent(h1) /\ req[h1].listed.ok /\ Len(req[h1].listed.data) = 0
        /\ req[h1].type = TYPE_A
        /\ Sent(h2) /\ DecodesToObject(h2)
        /\ AT \in DOMAIN BlobOf(h2).json.v
        /\ req[h2].subdomain = <<"u">>
        /\ STAR \notin DOMAIN BlobOf(h2).json.v

\* C4: a list call that fails, or a blob that cannot be decoded, gives a
\* response with no answers (not the fallback answer).
C4_LookupFailureIsEmpty ==
    \A h \in Handlers :
        (Sent(h) /\ (~req[h].listed.ok \/ Undecodable(h)))
            => /\ req[h].answers = <<>>
               /\ req[h].recordSet = Null

\* one query met a failed list call, another a blob that is no JSON
C4_Witness ==
    \E h1, h2 \in Handlers :
        /\ Sent(h1) /\ ~req[h1].listed.ok
        /\ Sent(h2) /\ FoundCustomer(h2) /\ BlobOf(h2).k = "garbage"

\* what h selected from the record set: one of its entries, or none
SelectedEntry(h) ==
    IF req[h].recordSet.k = "object" THEN req[h].recordSet ELSE Null

\* C5 as claimed: the selected entry is the exact entry of the label if the
\* decoded record set has one; otherwise, for a label other than "@", the
\* "*" entry if it has one; otherwise none.
C5_LabelResolutionAsClaimed ==
    \A h \in Handlers :
        (Sent(h) /\ DecodesToObject(h)) =>
            LET d == BlobOf(h).json.v
                label == req[h].subdomain
            IN  SelectedEntry(h) =
                    IF label \in DOMAIN d THEN d[label]
                    ELSE IF label # AT /\ STAR \in DOMAIN d THEN d[STAR]
                    ELSE Null

\* C6: the type fallback table, for a selected entry whose value lists are
\* non-empty arrays: an A query gets the A values as A answers, else one
\* CNAME answer from the CNAME values, else nothing; a CNAME query gets only
\* CNAME answers; an MX query only MX answers; any other type nothing.
C6_TypeFallbackTable ==
    \A h \in Handlers :
        (Sent(h) /\ Truthy(req[h].recordSet) /\ WellFormedEntry(req[h].recordSet)) =>
            LET e   == req[h].recordSet
                ans == req[h].answers
                t   == req[h].type
                AllOf(type, field, key) ==
                    /\ Len(ans) >= 1
                    /\ \A i \in 1..Len(ans) :
                           /\ ans[i].type = type
                           /\ \E j \in 1..Len(e.v[key].v) :
                                  ans[i].data[field] = e.v[key].v[j]
            IN  /\ (t = TYPE_A /\ HasValues(e, K_A)) =>
                       AllOf(TYPE_A, "address", K_A)
                /\ (t = TYPE_A /\ ~HasValues(e, K_A) /\ HasValues(e, K_CNAME)) =>
                       AllOf(TYPE_CNAME, "domain", K_CNAME)
                /\ (t = TYPE_A /\ ~HasValues(e, K_A) /\ ~HasValues(e, K_CNAME)) =>
                       ans = <<>>
                /\ (t = TYPE_CNAME /\ HasValues(e, K_CNAME)) =>
                       AllOf(TYPE_CNAME, "domain", K_CNAME)
                /\ (t = TYPE_CNAME /\ ~HasValues(e, K_CNAME)) => ans = <<>>
                /\ (t = TYPE_MX /\ HasValues(e, K_MX)) =>
                       /\ Len(ans) >= 1
                       /\ \A i \in 1..Len(ans) : ans[i].type = TYPE_MX
                /\ (t = TYPE_MX /\ ~HasValues(e, K_MX)) => ans = <<>>
                /\ t \notin {TYPE_A, TYPE_CNAME, TYPE_MX} => ans = <<>>

\* an A query fell back to a CNAME answer, and a CNAME query on an entry
\* with A values only was left unanswered
C6_Witness ==
    \E h1, h2 \in Handlers :
        /\ Sent(h1) /\ req[h1].type = TYPE_A
        /\ Len(req[h1].answers) = 1 /\ req[h1].answers[1].type = TYPE_CNAME
        /\ Sent(h2) /\ req[h2].type = TYPE_CNAME
        /\ HasValues(req[h2].recordSet, K_A)
        /\ req[h2].answers = <<>>

\* C7: an MX query (and an A query answered from A values) gets one answer
\* per stored value, the i-th answer carrying the i-th stored value.
C7_StoredOrder ==
    \A h \in Handlers :
        (Sent(h) /\ Truthy(req[h].recordSet) /\ WellFormedEntry(req[h].recordSet)) =>
            LET e   == req[h].recordSet
                ans == req[h].answers
            IN  /\ (req[h].type = TYPE_MX /\ HasValues(e, K_MX)) =>
                       /\ Len(ans) = Len(e.v[K_MX].v)
                       /\ \A i \in 1..Len(ans) :
                              ans[i].data =
                                  [priority |-> e.v[K_MX].v[i].v[PRIORITY],
                                   exchange |-> e.v[K_MX].v[i].v[EXCHANGE]]
                /\ (req[h].type = TYPE_A /\ HasValues(e, K_A)) =>
                       /\ Len(ans) = Len(e.v[K_A].v)
                       /\ \A i \in 1..Len(ans) :
                              ans[i].data = [address |-> e.v[K_A].v[i]]

\* MX values stored as 20 then 10 were answered as 20 then 10
C7_Witness ==
    \E h \in Handlers :
        /\ Sent(h) /\ req[h].type = TYPE_MX
        /\ Len(req[h].answers) = 2
        /\ req[h].answers[1].data.priority = Num(20)
        /\ req[h].answers[2].data.priority = Num(10)

\* the values the entry holds for a type, when they are a list
ValuesOf(e, key) ==
    IF HasValues(e, key) /\ e.v[key].k = "array" THEN e.v[key].v ELSE <<>>

\* the value an answer carries comes from the entry e
BuiltFrom(answer, e) ==
    \/ /\ answer.type = TYPE_A
       /\ \E j \in 1..Len(ValuesOf(e, K_A)) :
              answer.data = [address |-> ValuesOf(e, K_A)[j]]
    \/ /\ answer.type = TYPE_CNAME
       /\ Len(ValuesOf(e, K_CNAME)) > 0
       /\ answer.data = [domain |-> ValuesOf(e, K_CNAME)[1]]
    \/ /\ answer.type = TYPE_MX
       /\ \E j \in 1..Len(ValuesOf(e, K_MX)) :
              /\ ValuesOf(e, K_MX)[j].k = "object"
              /\ answer.data = [priority |-> ValuesOf(e, K_MX)[j].v[PRIORITY],
                                exchange |-> ValuesOf(e, K_MX)[j].v[EXCHANGE]]

\* C8: every answer of every response sent carries the name of that
\* request's own question, class IN and TTL 300, and (the fallback answer
\* apart) a value of the record set that request's own lookup selected.
C8_OwnNameClassTtl ==
    \A h \in Handlers :
        Sent(h) =>
            \A i \in 1..Len(req[h].answers) :
                /\ req[h].answers[i].name = req[h].name
                /\ req[h].answers[i].class = CLASS_IN
                /\ req[h].answers[i].ttl = TTL
                /\ \/ req[h].caught /\ i = Len(req[h].answers)
                   \/ BuiltFrom(req[h].answers[i], req[h].recordSet)

\* two queries for different names were in flight together and both were
\* answered with records
C8_Witness ==
    /\ Sent("h1") /\ Sent("h2")
    /\ req["h1"].name # req["h2"].name
    /\ req["h1"].answers # <<>>
    /\ req["h2"].answers # <<>>
    /\ req["h1"].topDomain = Y_C
    /\ req["h2"].topDomain = X_C

\* C9 as claimed: handling a request never ends without the response
\* having been sent exactly once.
C9_AlwaysSendsAsClaimed ==
    \A h \in Handlers :
        /\ req[h].sends <= 1
        /\ req[h].pc \in {"done", "rejected"} => req[h].sends = 1

\* the selected entry of h stores CNAME values (values of the data model)
StoresCNAME(h) ==
    /\ SelectedEntry(h).k = "object"
    /\ HasValues(SelectedEntry(h), K_CNAME)
    /\ SelectedEntry(h).v[K_CNAME].k = "array"
    /\ Len(SelectedEntry(h).v[K_CNAME].v) > 0
    /\ \A i \in 1..Len(SelectedEntry(h).v[K_CNAME].v) :
           WellFormedValue(SelectedEntry(h).v[K_CNAME].v[i])

\* C15: a CNAME query, and an A query on an entry without A values, on an
\* entry that stores CNAME values gets exactly one answer, of type CNAME,
\* whose target is the first stored value; no string carried by any answer
\* is a later stored CNAME value.
C15_OnlyFirstCNAME ==
    \A h \in Handlers :
        (Sent(h) /\ StoresCNAME(h)) =>
            LET e     == SelectedEntry(h)
                cname == e.v[K_CNAME].v
                ans   == req[h].answers
            IN  /\ (\/ req[h].type = TYPE_CNAME
                    \/ req[h].type = TYPE_A /\ ~HasValues(e, K_A)) =>
                       /\ Len(ans) = 1
                       /\ ans[1].type = TYPE_CNAME
                       /\ ans[1].data = [domain |-> cname[1]]
                /\ \A i \in 1..Len(ans), j \in 2..Len(cname) :
                       \A f \in DOMAIN ans[i].data :
                           (ans[i].data[f].k = "string" /\ cname[j] # cname[1])
                               => ans[i].data[f] # cname[j]

\* an entry storing the CNAME values "c." and "d." answered a CNAME query
\* and an A query that fell back to CNAME
C15_Witness ==
    \E h1, h2 \in Handlers :
        /\ Sent(h1) /\ StoresCNAME(h1) /\ req[h1].type = TYPE_CNAME
        /\ Len(SelectedEntry(h1).v[K_CNAME].v) = 2
        /\ Len(req[h1].answers) = 1
        /\ Sent(h2) /\ StoresCNAME(h2) /\ req[h2].type = TYPE_A
        /\ Len(SelectedEntry(h2).v[K_CNAME].v) = 2
        /\ req[h2].answers[1].data.domain = Str(<<"c", DOT>>)

\* the decoded record set of h's customer has an entry for the label
HasExactEntry(h) ==
    /\ req[h].subdomain \in DOMAIN BlobOf(h).json.v
    /\ BlobOf(h).json.v[req[h].subdomain].k = "object"

\* every answer of h carries a value of entry e
AnsweredOnlyFrom(h, e) ==
    \A i \in 1..Len(req[h].answers) : BuiltFrom(req[h].answers[i], e)

\* C17: when the decoded record set has an entry for the queried label,
\* that entry is the one selected and every answer is built from it, also
\* when it has no values for the queried type or none at all: the answer
\* section is then empty whatever the "*" entry holds.  An entry is selected
\* without an exact entry only when the label is not "@", and it is then
\* the "*" entry.
C17_ExactShadowsWildcard ==
    \A h \in Handlers :
        (Sent(h) /\ DecodesToObject(h)) =>
            LET d     == BlobOf(h).json.v
                label == req[h].subdomain
                t     == req[h].type
            IN  /\ HasExactEntry(h) =>
                       /\ SelectedEntry(h) = d[label]
                       /\ ~req[h].caught => AnsweredOnlyFrom(h, d[label])
                       /\ (\/ DOMAIN d[label].v = {}
                           \/ t = TYPE_A /\ ~HasValues(d[label], K_A)
                                         /\ ~HasValues(d[label], K_CNAME)
                           \/ t = TYPE_CNAME /\ ~HasValues(d[label], K_CNAME)
                           \/ t = TYPE_MX /\ ~HasValues(d[label], K_MX))
                              => req[h].answers = <<>>
                /\ (label \notin DOMAIN d /\ SelectedEntry(h) # Null) =>
                       /\ label # AT
                       /\ STAR \in DOMAIN d
                       /\ SelectedEntry(h) = d[STAR]

\* with A values under "*": an A query for a label whose entry holds MX
\* values only, and one for a label whose entry holds nothing, were
\* answered with an empty answer section
C17_Witness ==
    \E h1, h2 \in Handlers :
        /\ Sent(h1) /\ DecodesToObject(h1) /\ HasExactEntry(h1)
        /\ req[h1].subdomain = W /\ req[h1].type = TYPE_A
        /\ DOMAIN BlobOf(h1).json.v[W].v = {K_MX}
        /\ STAR \in DOMAIN BlobOf(h1).json.v
        /\ req[h1].answers = <<>>
        /\ Sent(h2) /\ DecodesToObject(h2) /\ HasExactEntry(h2)
        /\ req[h2].subdomain = V /\ req[h2].type = TYPE_A
        /\ BlobOf(h2).json.v[V] = EmptyObj
        /\ STAR \in DOMAIN BlobOf(h2).json.v
        /\ req[h2].answers = <<>>

(***************************************************************************)
(* Claims about the write path, checked under SpecUpdate.  A finished run  *)
(* holds the blob it read (read), the value it normalized (formattedValue) *)
(* and the blob it stored (blob); alone tells that no other run wrote      *)
(* between its read and its write.                                         *)
(***************************************************************************)
\* the blob holds a record set (no dns_records key yet counts as empty)
HoldsRecordSet(blob) ==
    \/ blob.k = "undefined"
    \/ blob.k = "jsontext" /\ blob.json.k = "object"

StoredRecordSet(blob) == IF blob.k = "undefined" THEN EmptyObj ELSE blob.json

\* the value sequence stored at [label][type], Undefined when there is none
PairValue(rs, label, type) ==
    IF /\ label \in DOMAIN rs.v
       /\ rs.v[label].k = "object"
       /\ type \in DOMAIN rs.v[label].v
    THEN rs.v[label].v[type]
    ELSE Undefined

TypesIn(rs) ==
    UNION {DOMAIN rs.v[l].v : l \in {m \in DOMAIN rs.v : rs.v[m].k = "object"}}

\* C1 as claimed: after an update of type A, CNAME or MX that ran alone and
\* succeeded on a stored record set, the stored record set holds the
\* normalized new value at [label][type] and equals the one before at every
\* other (label, type) pair.
C1_FrameAsClaimed ==
    \A u \in Updaters :
        (/\ upd[u].pc = "done"
         /\ upd[u].alone
         /\ upd[u].recordType \in {K_A, K_CNAME, K_MX}
         /\ HoldsRecordSet(upd[u].read)) =>
            LET before == StoredRecordSet(upd[u].read)
                after  == StoredRecordSet(upd[u].blob)
                label  == IF upd[u].subdomain = <<>> THEN AT
                          ELSE upd[u].subdomain
                labels == DOMAIN before.v \cup DOMAIN after.v \cup {label}
                types  == TypesIn(before) \cup TypesIn(after)
                              \cup {upd[u].recordType}
            IN  /\ PairValue(after, label, upd[u].recordType)
                       = upd[u].formattedValue
                /\ \A l \in labels, t \in types :
                       <<l, t>> # <<label, upd[u].recordType>> =>
                           PairValue(after, l, t) = PairValue(before, l, t)

\* the label a run writes under
LabelOf(u) == IF upd[u].subdomain = <<>> THEN AT ELSE upd[u].subdomain

\* the record set a run started from: the one it read, empty when the
\* customer had no blob or an undecodable one
ReadRecordSet(u) == ExistingRecords([dns_records |-> upd[u].read])

\* the record set stored on the customer the run wrote to
WrittenRecordSet(u) ==
    StoredRecordSet(customers[upd[u].customerId].dns_records)

\* C14: nothing in the write path detects or prevents a lost update.  A run
\* that reports success has overwritten the whole blob with one made from
\* its own read: as long as its write is the latest, the stored record set
\* holds at every (label, type) pair other than the run's own exactly what
\* the run had read, whatever was written between its read and its write.
C14_LostUpdateUndetected ==
    \A u \in Updaters :
        (upd[u].pc = "done" /\ upd[u].latest) =>
            LET before == ReadRecordSet(u)
                after  == WrittenRecordSet(u)
                labels == DOMAIN before.v \cup DOMAIN after.v
                types  == TypesIn(before) \cup TypesIn(after)
            IN  /\ customers[upd[u].customerId].dns_records = upd[u].blob
                /\ \A l \in labels, t \in types :
                       <<l, t>> # <<LabelOf(u), upd[u].recordType>> =>
                           PairValue(after, l, t) = PairValue(before, l, t)

\* two runs on the same customer both read before either wrote, both
\* reported success, and the stored record set holds the write of the later
\* one only: the value the earlier one stored under another label is gone
C14_Witness ==
    \E u, v \in Updaters :
        /\ u # v
        /\ upd[u].pc = "done" /\ upd[v].pc = "done"
        /\ upd[u].latest /\ ~upd[u].alone
        /\ upd[u].customerId = upd[v].customerId
        /\ upd[u].read = upd[v].read
        /\ LabelOf(u) = AT /\ LabelOf(v) = W
        /\ upd[u].recordType = K_A /\ upd[v].recordType = K_A
        /\ PairValue(StoredRecordSet(upd[v].blob), W, K_A) # Undefined
        /\ PairValue(WrittenRecordSet(u), W, K_A) = Undefined
        /\ PairValue(WrittenRecordSet(u), AT, K_A) = upd[u].formattedValue

\* the customers of the account that are keyed by the apex
EntriesOf(domain) ==
    {i \in 1..Len(customers) : customers[i].email = Email(domain)}

\* C18 as claimed: after any number of update runs on an apex, one after
\* another or overlapping, the account holds at most one customer keyed by
\* that apex.
C18_OneEntryPerApexAsClaimed ==
    \A domain \in {X_C, Y_C} : Cardinality(EntriesOf(domain)) <= 1

\* customers.list({limit: 1, email}) on the account as it is in store
NewestIn(store, email) ==
    LET ids == {i \in 1..Len(store) : store[i].email = email}
    IN  IF ids = {} THEN <<>> ELSE <<store[SetMax(ids)]>>

\* the answer section the server sends for (name, type) when the account
\* is store
Served(store, name, type) ==
    LET parts == parseDomainParts(name)
        r     == [IdleRequest EXCEPT !.name = name, !.type = type,
                                     !.topDomain = parts.topDomain,
                                     !.subdomain = parts.subdomain]
    IN  Respond(r, Listed(NewestIn(store, Email(parts.topDomain)))).answers

\* C19: when an update run has ended in its error branch and no other run
\* has written to the account since it started, the server answers every
\* query name and type as it did when the run started.
C19_FailedUpdateServesSame ==
    \A u \in Updaters :
        (upd[u].pc = "failed" /\ upd[u].quiet) =>
            \/ customers = upd[u].atStart
            \/ \A n \in QueryNames, t \in QueryTypes :
                   Served(customers, n, t) = Served(upd[u].atStart, n, t)

\* a run found no customer, created one and then failed on the value: the
\* account has changed, and what it serves has not
C19_Witness ==
    \E u \in Updaters :
        /\ upd[u].pc = "failed" /\ upd[u].quiet
        /\ upd[u].customerId > Len(upd[u].atStart)
        /\ Len(customers) = Len(upd[u].atStart) + 1
        /\ customers # upd[u].atStart

\* the run found a customer whose blob is not JSON text
ReadUndecodable(u) == upd[u].customerId # 0 /\ upd[u].read = Garbage

\* C20 as claimed: an update of type A, CNAME or MX that finds a customer
\* whose blob cannot be decoded does not fail because of it (with a value
\* that can be normalized it reaches customers.update), and when it has
\* succeeded the stored record set holds the newly written [label][type]
\* value list and nothing else.
C20_FreshStartAsClaimed ==
    \A u \in Updaters :
        (ReadUndecodable(u) /\ upd[u].recordType \in {K_A, K_CNAME, K_MX}) =>
            /\ ~FormatValue(upd[u].recordType, upd[u].value).threw =>
                   upd[u].pc \in {"update", "done", "failed"}
                       /\ upd[u].blob # Undefined
            /\ upd[u].pc = "done" =>
                   StoredRecordSet(upd[u].blob) =
                       Obj(LabelOf(u) :>
                               Obj(upd[u].recordType :>
                                       ToJSON(upd[u].formattedValue)))

(***************************************************************************)
(* Claims about the codec, checked under SpecCodec.                        *)
(***************************************************************************)
IsStringList(x) ==
    x.k = "array" /\ \A i \in 1..Len(x.v) : x.v[i].k = "string"

IsMXList(x) ==
    /\ x.k = "array"
    /\ \A i \in 1..Len(x.v) :
           /\ x.v[i].k = "object"
           /\ DOMAIN x.v[i].v = {PRIORITY, EXCHANGE}
           /\ x.v[i].v[PRIORITY].k = "number"
           /\ x.v[i].v[EXCHANGE].k = "string"

\* a RecordSet of the data model: labels mapped to A/CNAME string lists and
\* MX lists of {priority: integer, exchange: string}
ValidRecordSet(r) ==
    /\ r.k = "object"
    /\ \A l \in DOMAIN r.v :
           /\ r.v[l].k = "object"
           /\ DOMAIN r.v[l].v \subseteq {K_A, K_CNAME, K_MX}
           /\ \A t \in DOMAIN r.v[l].v :
                  IF t = K_MX THEN IsMXList(r.v[l].v[t])
                  ELSE IsStringList(r.v[l].v[t])

\* C11: for every valid record set r, decoding the blob that encoding r
\* produced does not fail and gives back exactly r: the same labels, the
\* same types per label, the same values in the same order.  (The blob is
\* the text JSON.stringify writes, decoding is JSON.parse of that text; a
\* record set is a mapping, the order of its labels is not part of it.)
C11_CodecRoundTrip ==
    (out.done /\ ValidRecordSet(Unordered(arg))) =>
        /\ ~out.decoded.threw
        /\ out.decoded.value = Unordered(arg)

\* a valid record set with three labels, created in the order w"\, @, *,
\* the first holding a quote and a backslash and an entry without values,
\* the second an MX list whose exchange holds quotes, brackets, a tab and
\* a newline and whose second priority is negative, has made the round
\* trip through a text that starts with the first label, escaped
C11_Witness ==
    /\ out.done
    /\ ValidRecordSet(Unordered(arg))
    /\ Len(arg.members) = 3
    /\ arg.members[1] = Prop(QUOTED, Props(<<>>))
    /\ arg.members[2].key = AT
    /\ arg.members[3].key = STAR
    /\ K_MX \in DOMAIN Unordered(arg).v[AT].v
    /\ Unordered(arg).v[AT].v[K_MX].v[1].v[EXCHANGE] = Str(Awkward \o <<DOT>>)
    /\ Unordered(arg).v[AT].v[K_MX].v[2].v[PRIORITY] = Num(0 - 5)
    /\ SubSeq(out.blob, 1, 8) =
           <<"{", QUOTE, "w", BACKSLASH, QUOTE, BACKSLASH, BACKSLASH, QUOTE>>
    /\ \E i \in 1..(Len(out.blob) - 1) :
           out.blob[i] = BACKSLASH /\ out.blob[i + 1] = "n"
    /\ out.decoded.value = Unordered(arg)

(***************************************************************************)
(* Claims about queries and updates together, checked under SpecServe.     *)
(***************************************************************************)
\* the step in which the list call of request h resolves
LookupStep(h) ==
    req[h].pc = "lookup" /\ req'[h].pc = "found" /\ req'[h].listed.ok

\* the step in which request h, whose list call had resolved, is answered
AnswerStep(h) ==
    req[h].pc = "found" /\ req'[h].pc = "done" /\ req[h].listed.ok

\* request r as answered from a customer of its apex holding blob
AnsweredFrom(r, blob) == Respond(r, Listed(<<Customer(r.topDomain, blob)>>))

\* C12 as claimed: once an update run has stored its record set, every
\* query whose handling starts afterwards and whose lookup resolves with
\* no other write in between finds the blob that run stored and selects
\* its record set from it; and every query is answered from the blob its
\* own lookup found, whatever is written before the response is sent.
C12_ReadAfterWriteAsClaimed ==
    [][\A h \in Handlers :
          /\ \A u \in Updaters :
                 (/\ LookupStep(h)
                  /\ u \in req[h].seen
                  /\ upd[u].latest
                  /\ req[h].topDomain = upd[u].domain) =>
                     /\ Len(req'[h].listed.data) = 1
                     /\ req'[h].listed.data[1].dns_records = upd[u].blob
                     /\ req'[h].recordSet =
                            AnsweredFrom(req[h], upd[u].blob).recordSet
          /\ AnswerStep(h) =>
                 /\ Len(req[h].listed.data) = 1 =>
                        req'[h].answers =
                            AnsweredFrom(req[h], BlobOf(h)).answers
                 /\ Len(req[h].listed.data) = 0 => req'[h].answers = <<>>]_vars

(***************************************************************************)
(* Claims about the normalization of the value, checked under SpecFormat.  *)
(***************************************************************************)
\* the position of the first whitespace character of s, 0 when it has none
FirstWhitespace(s) ==
    LET at == {i \in 1..Len(s) : s[i] \in Whitespace}
    IN  IF at = {} THEN 0 ELSE CHOOSE i \in at : \A j \in at : i <= j

AllDigits(s) == Len(s) > 0 /\ \A i \in 1..Len(s) : IsDigit(s[i])

\* the segment reads <digits><whitespace><rest>: the part before the first
\* whitespace is an integer and a part after it exists
ReadsAsMX(seg) ==
    LET t == Trim(seg)
        w == FirstWhitespace(t)
    IN  w > 1 /\ AllDigits(SubSeq(t, 1, w - 1))

\* the MX element the claim describes for such a segment
ClaimedMX(seg) ==
    LET t        == Trim(seg)
        w        == FirstWhitespace(t)
        exchange == SubSeq(t, w + 1, Len(t))
    IN  Obj(PRIORITY :> Num(DecimalValue(SubSeq(t, 1, w - 1)))
            @@ EXCHANGE :> Str(IF EndsWithDot(exchange) THEN exchange
                               ELSE exchange \o <<DOT>>))

\* C13 as claimed: after a successful update the value stored at
\* [label][type] has one element per comma-separated segment of the raw
\* value, in input order; for A and CNAME the trimmed segment; for MX (each
\* segment reading <integer><whitespace><rest>) {priority, exchange} with
\* the integer before the first whitespace and the part after it, "."
\* appended exactly when it did not end in "."; a label "" or "@" is stored
\* under "@".
C13_NormalizationAsClaimed ==
    LET segs  == Split(arg.value, COMMA)
        label == IF arg.subdomain = <<>> THEN AT ELSE arg.subdomain
    IN  (/\ out # NotYet
         /\ ~out.threw
         /\ arg.recordType = K_MX =>
                \A i \in 1..Len(segs) : ReadsAsMX(segs[i])) =>
            LET stored == PairValue(out.blob.json, label, arg.recordType)
            IN  /\ stored.k = "array"
                /\ Len(stored.v) = Len(segs)
                /\ \A i \in 1..Len(segs) :
                       stored.v[i] = IF arg.recordType = K_MX
                                     THEN ClaimedMX(segs[i])
                                     ELSE Str(Trim(segs[i]))

=============================================================================
